---- MODULE Spec2Model ----
(***************************************************************************)
(* Model of the karma plugin: the karma ledger (table "karma"), the        *)
(* per-user aggregate (table "karma_cache") and the bot handlers that      *)
(* drive them (KarmaBot._vote, KarmaBot.redact).                           *)
(*                                                                         *)
(* A table is the set of its rows.  An Optional[...] result is a set with  *)
(* no element (None) or one element.  A handler runs without interruption  *)
(* between two awaits: _vote has one await that matters, the fetch of the  *)
(* target event, so it is two steps (VoteBegin, VoteResume); redact has    *)
(* none and is one step.                                                   *)
(***************************************************************************)
EXTENDS Integers, FiniteSets, Sequences, TLC

VARIABLES karma, cache, now, senders, pending, config, nops, last, received, answer

vars == <<karma, cache, now, senders, pending, config, nops, last, received, answer>>

-----------------------------------------------------------------------------
(* Bounds of the model *)

MaxVotes == 2
MaxTime == 1
MaxOps == 3

(* The universe the inputs are drawn from *)

Users == {"alice", "bob"}
Anonymous == ""
UserIds == Users \cup {Anonymous}
Room == "r1"
MsgSender == [m1 |-> "alice", m2 |-> "bob"]
Msgs == DOMAIN MsgSender
VoteIds == <<"v1", "v2", "v3", "v4", "v5">>
NoTarget == ""
Ghost == "x0"
Values == {1, -1}

sha1(val) == <<"sha1", val>>

ConfigChoices ==
    { [democracy |-> TRUE, filter |-> {}, opt_out |-> {}, store_content |-> TRUE],
      [democracy |-> FALSE, filter |-> {"alice"}, opt_out |-> {sha1("bob")},
       store_content |-> TRUE] }

-----------------------------------------------------------------------------
(* The room: the events the client can fetch *)

\* senders[i] is the sender of the i-th vote event that arrived, VoteIds[i]
ArrivedIds == {VoteIds[i] : i \in 1..Len(senders)}
RoomEvents == Msgs \cup ArrivedIds
SenderOf(e) == IF e \in Msgs THEN MsgSender[e]
               ELSE senders[CHOOSE i \in 1..Len(senders) : VoteIds[i] = e]

\* client.get_event: the event, or nothing when it cannot be resolved
get_event(e) == IF e \in RoomEvents THEN {[event_id |-> e, sender |-> SenderOf(e)]} ELSE {}

-----------------------------------------------------------------------------
(* KarmaCache *)

get_karma(c, user_id) == {row \in c : row.user_id = user_id}

CacheUpdate(c, self) ==
    {IF row.user_id = self.user_id THEN self ELSE row : row \in c}

CacheInsert(c, self) == c \cup {self}

update_direct(c, user_id, total_diff, positive_diff, negative_diff, ignore_if_not_exist) ==
    LET existing == get_karma(c, user_id)
    IN IF existing # {}
       THEN LET e == CHOOSE row \in existing : TRUE
            IN CacheUpdate(c, [user_id |-> e.user_id,
                               total |-> e.total + total_diff,
                               positive |-> e.positive + positive_diff,
                               negative |-> e.negative + negative_diff])
       ELSE IF ~ignore_if_not_exist
            THEN CacheInsert(c, [user_id |-> user_id, total |-> total_diff,
                                 positive |-> positive_diff, negative |-> negative_diff])
            ELSE c

-----------------------------------------------------------------------------
(* Karma *)

KeyOf(r) == <<r.given_to, r.given_by, r.given_in, r.given_for>>

\* the constraints of the table: the composite primary key, unique given_from
PrimaryKeyTaken(k, rec) == \E r \in k : KeyOf(r) = KeyOf(rec)
\* mutant: given_from declared without unique=True
GivenFromTaken_NotUnique(k, rec) == FALSE

GivenFromTaken(k, rec) == \E r \in k : r.given_from = rec.given_from

is_vote_event(k, event_id) == \E r \in k : r.given_from = event_id

\* mutant: the select compares given_for with the recipient
KarmaGet_WrongColumn(k, given_to, given_by, given_in, given_for) ==
    {r \in k : /\ r.given_to = given_to /\ r.given_by = given_by
               /\ r.given_in = given_in /\ r.given_for = given_to}

KarmaGet(k, given_to, given_by, given_in, given_for) ==
    {r \in k : /\ r.given_to = given_to /\ r.given_by = given_by
               /\ r.given_in = given_in /\ r.given_for = given_for}

get_by_given_from(k, event_id) == {r \in k : r.given_from = event_id}

\* Each of insert, update and delete runs in "with self.db.begin() as txn":
\* the result is the committed tables, or the tables as they were and
\* ok = FALSE when a statement raised.
\* mutant: the aggregate written outside the transaction, before the insert
KarmaInsert_NoTransaction(k, c, self, t) ==
    LET rec == [self EXCEPT !.given_at = t]
        c2 == update_direct(c, rec.given_to, rec.value,
                            IF rec.value > 0 THEN rec.value ELSE 0,
                            IF rec.value < 0 THEN -rec.value ELSE 0, FALSE)
    IN IF PrimaryKeyTaken(k, rec) \/ GivenFromTaken(k, rec)
       THEN [ok |-> FALSE, karma |-> k, cache |-> c2]
       ELSE [ok |-> TRUE, karma |-> k \cup {rec}, cache |-> c2]

KarmaInsert(k, c, self, t) ==
    LET rec == [self EXCEPT !.given_at = t]
    IN IF PrimaryKeyTaken(k, rec) \/ GivenFromTaken(k, rec)
       THEN [ok |-> FALSE, karma |-> k, cache |-> c]
       ELSE [ok |-> TRUE,
             karma |-> k \cup {rec},
             cache |-> update_direct(c, rec.given_to, rec.value,
                                     IF rec.value > 0 THEN rec.value ELSE 0,
                                     IF rec.value < 0 THEN -rec.value ELSE 0,
                                     FALSE)]

\* mutant: "negative_diff += new_value" for a new downvote
KarmaUpdate_NegativeSign(k, c, self, new_value, t) ==
    LET old_value == self.value
        total_diff == new_value - old_value
        pd1 == IF old_value > 0 THEN 0 - old_value ELSE 0
        nd1 == IF old_value > 0 THEN 0 ELSE IF old_value < 0 THEN old_value ELSE 0
        positive_diff == IF new_value > 0 THEN pd1 + new_value ELSE pd1
        negative_diff == IF new_value > 0 THEN nd1
                         ELSE IF new_value < 0 THEN nd1 + new_value ELSE nd1
    IN [ok |-> TRUE,
        karma |-> {IF KeyOf(r) = KeyOf(self)
                   THEN [r EXCEPT !.given_from = self.given_from,
                                  !.value = new_value, !.given_at = t]
                   ELSE r : r \in k},
        cache |-> update_direct(c, self.given_to, total_diff, positive_diff,
                                negative_diff, FALSE)]

\* mutant: total_diff is the new value, the old one is not taken back
KarmaUpdate_TotalNotSwung(k, c, self, new_value, t) ==
    LET old_value == self.value
        total_diff == new_value
        pd1 == IF old_value > 0 THEN 0 - old_value ELSE 0
        nd1 == IF old_value > 0 THEN 0 ELSE IF old_value < 0 THEN old_value ELSE 0
        positive_diff == IF new_value > 0 THEN pd1 + new_value ELSE pd1
        negative_diff == IF new_value > 0 THEN nd1
                         ELSE IF new_value < 0 THEN nd1 - new_value ELSE nd1
    IN [ok |-> TRUE,
        karma |-> {IF KeyOf(r) = KeyOf(self)
                   THEN [r EXCEPT !.given_from = self.given_from,
                                  !.value = new_value, !.given_at = t]
                   ELSE r : r \in k},
        cache |-> update_direct(c, self.given_to, total_diff, positive_diff,
                                negative_diff, FALSE)]

\* mutant: the row is rewritten and update_direct is not called
KarmaUpdate_LedgerOnly(k, c, self, new_value, t) ==
    [ok |-> TRUE,
     karma |-> {IF KeyOf(r) = KeyOf(self)
                THEN [r EXCEPT !.given_from = self.given_from,
                               !.value = new_value, !.given_at = t]
                ELSE r : r \in k},
     cache |-> c]

\* mutant: the update writes an empty given_from over the record's own
KarmaUpdate_DropsGivenFrom(k, c, self, new_value, t) ==
    LET old_value == self.value
        total_diff == new_value - old_value
        pd1 == IF old_value > 0 THEN 0 - old_value ELSE 0
        nd1 == IF old_value > 0 THEN 0 ELSE IF old_value < 0 THEN old_value ELSE 0
        positive_diff == IF new_value > 0 THEN pd1 + new_value ELSE pd1
        negative_diff == IF new_value > 0 THEN nd1
                         ELSE IF new_value < 0 THEN nd1 - new_value ELSE nd1
    IN [ok |-> TRUE,
        karma |-> {IF KeyOf(r) = KeyOf(self)
                   THEN [r EXCEPT !.given_from = "",
                                  !.value = new_value, !.given_at = t]
                   ELSE r : r \in k},
        cache |-> update_direct(c, self.given_to, total_diff, positive_diff,
                                negative_diff, FALSE)]

KarmaUpdate(k, c, self, new_value, t) ==
    LET old_value == self.value
        total_diff == new_value - old_value
        pd1 == IF old_value > 0 THEN 0 - old_value ELSE 0
        nd1 == IF old_value > 0 THEN 0 ELSE IF old_value < 0 THEN old_value ELSE 0
        positive_diff == IF new_value > 0 THEN pd1 + new_value ELSE pd1
        negative_diff == IF new_value > 0 THEN nd1
                         ELSE IF new_value < 0 THEN nd1 - new_value ELSE nd1
    IN [ok |-> TRUE,
        karma |-> {IF KeyOf(r) = KeyOf(self)
                   THEN [r EXCEPT !.given_from = self.given_from,
                                  !.value = new_value, !.given_at = t]
                   ELSE r : r \in k},
        cache |-> update_direct(c, self.given_to, total_diff, positive_diff,
                                negative_diff, FALSE)]

\* mutant: negative_diff=-self.value, as in insert
KarmaDelete_NegativeSign(k, c, self) ==
    [ok |-> TRUE,
     karma |-> {r \in k : KeyOf(r) # KeyOf(self)},
     cache |-> update_direct(c, self.given_to, 0 - self.value,
                             IF self.value > 0 THEN 0 - self.value ELSE 0,
                             IF self.value < 0 THEN 0 - self.value ELSE 0,
                             TRUE)]

\* mutant: the row is deleted and the aggregate is left as it was
KarmaDelete_LedgerOnly(k, c, self) ==
    [ok |-> TRUE, karma |-> {r \in k : KeyOf(r) # KeyOf(self)}, cache |-> c]

\* mutant: the delete statement's WHERE leaves out given_by
KarmaDelete_WideWhere(k, c, self) ==
    [ok |-> TRUE,
     karma |-> {r \in k : ~ (/\ r.given_to = self.given_to /\ r.given_in = self.given_in
                              /\ r.given_for = self.given_for)},
     cache |-> update_direct(c, self.given_to, 0 - self.value,
                             IF self.value > 0 THEN 0 - self.value ELSE 0,
                             IF self.value < 0 THEN self.value ELSE 0,
                             TRUE)]

\* mutant: the aggregate row is deleted when its counters are back at zero
KarmaDelete_DropsZeroRow(k, c, self) ==
    LET c2 == update_direct(c, self.given_to, 0 - self.value,
                            IF self.value > 0 THEN 0 - self.value ELSE 0,
                            IF self.value < 0 THEN self.value ELSE 0,
                            TRUE)
    IN [ok |-> TRUE,
        karma |-> {r \in k : KeyOf(r) # KeyOf(self)},
        cache |-> {row \in c2 : row.positive # 0 \/ row.negative # 0}]

KarmaDelete(k, c, self) ==
    [ok |-> TRUE,
     karma |-> {r \in k : KeyOf(r) # KeyOf(self)},
     cache |-> update_direct(c, self.given_to, 0 - self.value,
                             IF self.value > 0 THEN 0 - self.value ELSE 0,
                             IF self.value < 0 THEN self.value ELSE 0,
                             TRUE)]

-----------------------------------------------------------------------------
(* KarmaBot *)

_parse_content(cfg, evt) == IF ~cfg.store_content THEN "" ELSE "body"

\* _vote up to the await of client.get_event: "wait" when it got there,
\* otherwise the reason it returned
\* mutant: the target is not looked up among the vote events
VoteChecks_NoVoteOnVote(k, cfg, sender, target) ==
    IF target = NoTarget THEN "NoTarget"
    ELSE IF cfg.democracy = (sender \in cfg.filter) \/ sha1(sender) \in cfg.opt_out
         THEN "Filtered"
    ELSE "wait"

VoteChecks(k, cfg, sender, target) ==
    IF target = NoTarget THEN "NoTarget"
    ELSE IF cfg.democracy = (sender \in cfg.filter) \/ sha1(sender) \in cfg.opt_out
         THEN "Filtered"
    ELSE IF is_vote_event(k, target) THEN "VoteOnVote"
    ELSE "wait"

\* mutant: the comparison with the stored value is left out
AlreadyVoted_Never(existing_value, value) == FALSE

\* "if existing.value == value": the voter already gave this vote
AlreadyVoted(existing_value, value) == existing_value = value

\* mutant: the check is left out
IsSelfUpvote_Never(target_sender, sender, value) == FALSE

\* "if karma_target.sender == evt.sender and value > 0"
IsSelfUpvote(target_sender, sender, value) == target_sender = sender /\ value > 0

\* mutant: the author's opt-out is not looked up
Anonymize_Never(cfg, target_sender) == FALSE

\* "anonymize = sha1(karma_target.sender) in self.config["opt_out"]"
Anonymize(cfg, target_sender) == sha1(target_sender) \in cfg.opt_out

\* _vote after the await, as one result: the outcome and the tables
VoteApply(k, c, cfg, evt_id, sender, value, fetched, t) ==
    IF fetched = {} THEN [outcome |-> "Unresolvable", karma |-> k, cache |-> c, key |-> <<>>]
    ELSE
    LET karma_target == CHOOSE x \in fetched : TRUE
        anonymize == Anonymize(cfg, karma_target.sender)
        given_to == IF anonymize THEN Anonymous ELSE karma_target.sender
        key == <<given_to, sender, Room, karma_target.event_id>>
        existing == KarmaGet(k, given_to, sender, Room, karma_target.event_id)
    IN IF IsSelfUpvote(karma_target.sender, sender, value)
       THEN [outcome |-> "SelfUpvote", karma |-> k, cache |-> c, key |-> <<>>]
       ELSE IF existing # {}
       THEN LET ex == CHOOSE r \in existing : TRUE
            IN IF AlreadyVoted(ex.value, value)
               THEN [outcome |-> "Unchanged", karma |-> k, cache |-> c, key |-> key]
               ELSE LET res == KarmaUpdate(k, c, ex, value, t)
                    IN [outcome |-> "Updated", karma |-> res.karma,
                        cache |-> res.cache, key |-> key]
       ELSE LET new == [given_to |-> given_to, given_by |-> sender, given_in |-> Room,
                        given_for |-> karma_target.event_id, given_from |-> evt_id,
                        given_at |-> 0, value |-> value,
                        content |-> IF ~anonymize THEN _parse_content(cfg, karma_target)
                                    ELSE ""]
                res == KarmaInsert(k, c, new, t)
            IN [outcome |-> IF res.ok THEN "Created" ELSE "Failed",
                karma |-> res.karma, cache |-> res.cache, key |-> key]

-----------------------------------------------------------------------------
(* What the last step did: the operation, the event it handled, the vote's *)
(* value and key, the outcome, the recipient's aggregate row as it was     *)
(* before the step (pre), and, when the step met a record (Unchanged,      *)
(* Updated, Deleted), the outcome, event and key of the step before it if  *)
(* that step created or flipped a record (prior).                          *)
(* received is the set of the user ids a record was ever given to, answer  *)
(* is what the last step returned when it was a query.                     *)

NoAnswer == <<>>

NoOp == [op |-> "none", evt |-> "", value |-> 0, key |-> <<>>, outcome |-> "",
         pre |-> {}, prior |-> <<>>]

Step(op, evt, value, key, outcome) ==
    [op |-> op, evt |-> evt, value |-> value, key |-> key, outcome |-> outcome,
     pre |-> IF key = <<>> THEN {} ELSE get_karma(cache, key[1]),
     prior |-> IF /\ outcome \in {"Unchanged", "Updated", "Deleted"}
                  /\ last.outcome \in {"Created", "Updated"}
               THEN <<last.outcome, last.evt, last.key>> ELSE <<>>]

Init ==
    /\ karma = {}
    /\ cache = {}
    /\ now = 0
    /\ senders = <<>>
    /\ pending = {}
    /\ config \in ConfigChoices
    /\ nops = 0
    /\ last = NoOp
    /\ received = {}
    /\ answer = NoAnswer

\* time(): the clock never goes back; now is the last time that was read
Clock == {t \in now..(now + 1) : t <= MaxTime}

\* a vote event arrives and _vote runs up to its first await
VoteBegin(sender, target, value) ==
    /\ Len(senders) < MaxVotes
    /\ LET e == VoteIds[Len(senders) + 1]
           chk == VoteChecks(karma, config, sender, target)
       IN /\ senders' = Append(senders, sender)
          /\ pending' = IF chk = "wait"
                        THEN pending \cup {[evt |-> e, target |-> target, value |-> value]}
                        ELSE pending
          /\ last' = Step("begin", e, value, <<>>, chk)
    /\ answer' = NoAnswer
    /\ UNCHANGED <<karma, cache, now, config, nops, received>>

\* client.get_event returns and _vote runs to its end
VoteResume(p, t) ==
    /\ p \in pending
    /\ LET res == VoteApply(karma, cache, config, p.evt, SenderOf(p.evt), p.value,
                            get_event(p.target), t)
       IN /\ karma' = res.karma
          /\ cache' = res.cache
          /\ now' = IF res.outcome \in {"Created", "Updated", "Failed"} THEN t ELSE now
          /\ last' = Step("vote", p.evt, p.value, res.key, res.outcome)
          /\ received' = received \cup {r.given_to : r \in res.karma}
    /\ pending' = pending \ {p}
    /\ answer' = NoAnswer
    /\ UNCHANGED <<senders, config, nops>>

\* mutant: the "if karma:" is left out and the delete of nothing raises
Redact_NoGuard(redacts) ==
    /\ LET found == get_by_given_from(karma, redacts)
       IN IF found # {}
          THEN LET kr == CHOOSE r \in found : TRUE
                   res == KarmaDelete(karma, cache, kr)
               IN /\ karma' = res.karma
                  /\ cache' = res.cache
                  /\ last' = Step("redact", redacts, kr.value, KeyOf(kr), "Deleted")
          ELSE /\ UNCHANGED <<karma, cache>>
               /\ last' = Step("redact", redacts, 0, <<>>, "Failed")
    /\ answer' = NoAnswer
    /\ UNCHANGED <<now, senders, pending, config, nops, received>>

\* a redaction event arrives: KarmaBot.redact
Redact(redacts) ==
    /\ LET found == get_by_given_from(karma, redacts)
       IN IF found # {}
          THEN LET kr == CHOOSE r \in found : TRUE
                   res == KarmaDelete(karma, cache, kr)
               IN /\ karma' = res.karma
                  /\ cache' = res.cache
                  /\ last' = Step("redact", redacts, kr.value, KeyOf(kr), "Deleted")
          ELSE /\ UNCHANGED <<karma, cache>>
               /\ last' = Step("redact", redacts, 0, <<>>, "NotFound")
    /\ answer' = NoAnswer
    /\ UNCHANGED <<now, senders, pending, config, nops, received>>

\* the events a redaction names: the vote events that arrived and a plain
\* message (no message is the given_from of a record: one stands for all)
Redactable == ArrivedIds \cup {"m1"}

Next ==
    \/ \E s \in Users, t \in RoomEvents \cup {NoTarget, Ghost}, v \in Values : VoteBegin(s, t, v)
    \/ \E p \in pending, t \in Clock : VoteResume(p, t)
    \/ \E e \in Redactable : Redact(e)

Spec == Init /\ [][Next]_vars

-----------------------------------------------------------------------------
(* The bot restarted between votes: start() loads the configuration file   *)
(* again, as the administrator left it, and opens the same database; the   *)
(* handlers that were waiting for an event are gone with the old instance. *)

Start(cfg) ==
    /\ config' = cfg
    /\ pending' = {}
    /\ last' = Step("start", "", 0, <<>>, "")
    /\ answer' = NoAnswer
    /\ UNCHANGED <<karma, cache, now, senders, nops, received>>

\* the configurations a restart may find, one of them with store_content off
RestartChoices ==
    ConfigChoices \cup
        {[democracy |-> TRUE, filter |-> {}, opt_out |-> {}, store_content |-> FALSE]}

NextRestart ==
    \/ Next
    \/ \E cfg \in RestartChoices : Start(cfg)

SpecRestart == Init /\ [][NextRestart]_vars

-----------------------------------------------------------------------------
(* The ledger driven directly: any sequence of Karma.insert, Karma.update  *)
(* and Karma.delete, each on an object as the callers make it (a new       *)
(* object for insert, the row Karma.get returned for update and delete).   *)

DbFroms == {VoteIds[i] : i \in 1..2}

\* the recipient of a vote is the sender of its target
DbRecords ==
    {r \in [given_to : Users, given_by : Users, given_in : {Room}, given_for : Msgs,
            given_from : DbFroms, given_at : {0}, value : Values, content : {"body"}] :
        r.given_to = MsgSender[r.given_for]}

DbInsert(rec, t) ==
    /\ nops < MaxOps
    /\ nops' = nops + 1
    /\ now' = t
    /\ LET res == KarmaInsert(karma, cache, rec, t)
       IN /\ karma' = res.karma
          /\ cache' = res.cache
          /\ last' = Step("insert", rec.given_from, rec.value, KeyOf(rec),
                          IF res.ok THEN "Created" ELSE "Failed")
          /\ received' = received \cup {r.given_to : r \in res.karma}
    /\ answer' = NoAnswer
    /\ UNCHANGED <<senders, pending, config>>

DbUpdate(self, new_value, t) ==
    /\ nops < MaxOps
    /\ nops' = nops + 1
    /\ now' = t
    /\ self \in karma
    /\ LET res == KarmaUpdate(karma, cache, self, new_value, t)
       IN /\ karma' = res.karma
          /\ cache' = res.cache
          /\ last' = Step("update", self.given_from, new_value, KeyOf(self), "Updated")
    /\ answer' = NoAnswer
    /\ UNCHANGED <<senders, pending, config, received>>

DbDelete(self) ==
    /\ nops < MaxOps
    /\ nops' = nops + 1
    /\ self \in karma
    /\ LET res == KarmaDelete(karma, cache, self)
       IN /\ karma' = res.karma
          /\ cache' = res.cache
          /\ last' = Step("delete", self.given_from, self.value, KeyOf(self), "Deleted")
    /\ answer' = NoAnswer
    /\ UNCHANGED <<now, senders, pending, config, received>>

\* KarmaCache.get_karma asked for a user, as view_karma does
GetKarma(user_id) ==
    /\ answer' = get_karma(cache, user_id)
    /\ last' = Step("get_karma", user_id, 0, <<>>, "")
    /\ UNCHANGED <<karma, cache, now, senders, pending, config, nops, received>>

NextDb ==
    \/ \E rec \in DbRecords, t \in Clock : DbInsert(rec, t)
    \/ \E self \in karma, v \in Values, t \in Clock : DbUpdate(self, v, t)
    \/ \E self \in karma : DbDelete(self)
    \/ \E u \in UserIds : GetKarma(u)

SpecDb == Init /\ [][NextDb]_vars

-----------------------------------------------------------------------------
(* The export command.  The select returns its rows in no given order: the *)
(* result is kept as the number of times each exported object occurs.      *)

\* mutant: one select for the records given to the user, then one for the
\* records given by the user
export_TwoSelects(k, user_id) ==
    [r \in {x \in k : x.given_to = user_id \/ x.given_by = user_id} |->
        (IF r.given_to = user_id THEN 1 ELSE 0) + (IF r.given_by = user_id THEN 1 ELSE 0)]

\* Karma.export: one select, "where given_to == user_id or given_by == user_id"
export(k, user_id) ==
    [r \in {x \in k : x.given_to = user_id \/ x.given_by = user_id} |-> 1]

\* Karma.to_dict
to_dict(self) ==
    ("to" :> self.given_to) @@ ("by" :> self.given_by) @@ ("in" :> self.given_in) @@
    ("for" :> self.given_for) @@ ("from" :> self.given_from) @@ ("at" :> self.given_at) @@
    ("value" :> self.value) @@ ("content" :> self.content)

\* Karma.to_dict read back: the record an exported object stands for
from_dict(d) ==
    [given_to |-> d["to"], given_by |-> d["by"], given_in |-> d["in"],
     given_for |-> d["for"], given_from |-> d["from"], given_at |-> d["at"],
     value |-> d["value"], content |-> d["content"]]

RECURSIVE SumCounts(_, _)
\* the number of objects in karma_list that are the object d
SumCounts(rows, d) ==
    IF DOMAIN rows = {} THEN 0
    ELSE LET r == CHOOSE x \in DOMAIN rows : TRUE
             rest == [x \in DOMAIN rows \ {r} |-> rows[x]]
         IN (IF to_dict(r) = d THEN rows[r] ELSE 0) + SumCounts(rest, d)

\* KarmaBot.export_own_karma: "[karma.to_dict() for karma in export(evt.sender)]"
export_own_karma(k, sender) ==
    LET rows == export(k, sender)
    IN [d \in {to_dict(r) : r \in DOMAIN rows} |-> SumCounts(rows, d)]

ExportOwnKarma(sender) ==
    /\ answer' = export_own_karma(karma, sender)
    /\ last' = Step("export", sender, 0, <<>>, "")
    /\ UNCHANGED <<karma, cache, now, senders, pending, config, nops, received>>

NextExport ==
    \/ \E rec \in DbRecords, t \in Clock : DbInsert(rec, t)
    \/ \E self \in karma, v \in Values, t \in Clock : DbUpdate(self, v, t)
    \/ \E self \in karma : DbDelete(self)
    \/ \E u \in Users : ExportOwnKarma(u)

SpecExport == Init /\ [][NextExport]_vars

-----------------------------------------------------------------------------
(* The queries.  "ORDER BY total" says nothing about rows of equal total:  *)
(* the database may return them in any order, so a query has a set of      *)
(* possible results and the query step returns any one of them.            *)

MaxLimit == 2
DefaultLimit == 10

Min(a, b) == IF a < b THEN a ELSE b
Abs(x) == IF x < 0 THEN 0 - x ELSE x

RECURSIVE SumOf(_)
\* func.sum over a set of rows' values
SumOf(S) ==
    IF S = {} THEN 0
    ELSE LET r == CHOOSE x \in S : TRUE IN r.value + SumOf(S \ {r})

\* the orders in which a select can return the rows S
Perms(S) ==
    {f \in [1..Cardinality(S) -> S] : \A i, j \in 1..Cardinality(S) : i # j => f[i] # f[j]}

\* .order_by(desc("total")) or asc: the orders the rows may come back in
OrderBy(S, direction) ==
    {f \in Perms(S) :
        \A i \in 1..(Cardinality(S) - 1) :
            IF direction = "desc" THEN f[i].total >= f[i + 1].total
            ELSE f[i].total <= f[i + 1].total}

RECURSIVE Prefix(_, _)
\* the first n rows of the order f, as a list
Prefix(f, n) == IF n = 0 THEN <<>> ELSE Append(Prefix(f, n - 1), f[n])

\* .limit(limit)
Limit(f, limit) == Prefix(f, Min(limit, Cardinality(DOMAIN f)))

\* KarmaCache.find_index_from_top on one order of the rows
IndexIn(f, user_id) ==
    IF \E i \in DOMAIN f : f[i].user_id = user_id
    THEN CHOOSE i \in DOMAIN f : f[i].user_id = user_id
    ELSE -1

find_index_from_top(c, user_id) == {IndexIn(f, user_id) : f \in OrderBy(c, "desc")}

\* KarmaCache.get_high / get_low
get_high(c, limit) == {Limit(f, limit) : f \in OrderBy(c, "desc")}
get_low(c, limit) == {Limit(f, limit) : f \in OrderBy(c, "asc")}

\* Karma.get_user_stats: the karma table grouped by given_to
UserStats(k) ==
    {[user_id |-> u,
      total |-> SumOf({r \in k : r.given_to = u}),
      positive |-> SumOf({r \in k : r.given_to = u /\ r.value > 0}),
      negative |-> Abs(SumOf({r \in k : r.given_to = u /\ r.value < 0}))]
     : u \in {r.given_to : r \in k}}

get_user_stats(k, direction, limit) ==
    {Limit(f, limit) : f \in OrderBy(UserStats(k), direction)}

\* Karma.get_event_stats: the karma table grouped by given_for; given_to and
\* content are not aggregated and come from any one row of the group
EventStats(k) ==
    {rows \in SUBSET
        {[event_id |-> r.given_for, sender |-> r.given_to, content |-> r.content,
          total |-> SumOf({x \in k : x.given_for = r.given_for}),
          positive |-> SumOf({x \in k : x.given_for = r.given_for /\ x.value > 0}),
          negative |-> Abs(SumOf({x \in k : x.given_for = r.given_for /\ x.value < 0}))]
         : r \in k} :
        /\ \A e \in {r.given_for : r \in k} : \E row \in rows : row.event_id = e
        /\ \A r1, r2 \in rows : r1.event_id = r2.event_id => r1 = r2}

get_event_stats(k, direction, limit) ==
    UNION {{Limit(f, limit) : f \in OrderBy(rows, direction)} : rows \in EventStats(k)}

\* Karma.all
KarmaAll(k, user_id) == {r \in k : r.given_to = user_id}

\* KarmaCache._set_karma: the delete, then an insert that names a column
\* "karma"; the table has none, the statement raises and nothing is written
CacheColumns == {"user_id", "total", "positive", "negative"}
SetKarmaColumns == {"user_id", "karma"}
SetKarmaRow(user_id, karma_sum) ==
    [user_id |-> user_id, total |-> karma_sum, positive |-> 0, negative |-> 0]

_set_karma(c, user_id, karma_sum) ==
    LET deleted == c \ get_karma(c, user_id)
    IN IF SetKarmaColumns \subseteq CacheColumns
       THEN [ok |-> TRUE, cache |-> deleted \cup {SetKarmaRow(user_id, karma_sum)}]
       ELSE [ok |-> FALSE, cache |-> deleted]

\* KarmaCache.set_karma with the caller's connection
set_karma(c, user_id, karma_sum) == _set_karma(c, user_id, karma_sum)

\* KarmaCache.recalculate: set_karma inside "with cls.db.begin() as txn"
recalculate(k, c, user_id) ==
    LET res == set_karma(c, user_id, SumOf(KarmaAll(k, user_id)))
    IN IF res.ok THEN [ok |-> TRUE, cache |-> res.cache] ELSE [ok |-> FALSE, cache |-> c]

\* KarmaBot._karma_user_list: the lines of the list, each with the number
\* enumerate gave its row, the rows of the empty user id left out
_karma_user_list(k, list_type) ==
    LET Shown(line) == line.karma.user_id # Anonymous
    IN {SelectSeq([i \in 1..Len(f) |-> [index |-> i, karma |-> f[i]]], Shown)
        : f \in get_user_stats(k, IF list_type = "top" THEN "desc" ELSE "asc", DefaultLimit)}

Query(op, arg, n, result) ==
    /\ answer' = result
    /\ last' = Step(op, arg, n, <<>>, "")
    /\ UNCHANGED <<karma, cache, now, senders, pending, config, nops, received>>

FindIndexFromTop(user_id) ==
    \E a \in find_index_from_top(cache, user_id) : Query("find_index_from_top", user_id, 0, a)

GetHigh(limit) == \E a \in get_high(cache, limit) : Query("get_high", "", limit, a)

GetLow(limit) == \E a \in get_low(cache, limit) : Query("get_low", "", limit, a)

GetTopUsers(limit) ==
    \E a \in get_user_stats(karma, "desc", limit) : Query("get_top_users", "", limit, a)

GetBottomUsers(limit) ==
    \E a \in get_user_stats(karma, "asc", limit) : Query("get_bottom_users", "", limit, a)

GetBestEvents(limit) ==
    \E a \in get_event_stats(karma, "desc", limit) : Query("get_best_events", "", limit, a)

GetWorstEvents(limit) ==
    \E a \in get_event_stats(karma, "asc", limit) : Query("get_worst_events", "", limit, a)

KarmaUserList(list_type) ==
    \E a \in _karma_user_list(karma, list_type) : Query("_karma_user_list", list_type, 0, a)

Recalculate(user_id) ==
    /\ LET res == recalculate(karma, cache, user_id)
       IN /\ cache' = res.cache
          /\ last' = Step("recalculate", user_id, 0, <<>>, IF res.ok THEN "Done" ELSE "Failed")
    /\ answer' = NoAnswer
    /\ UNCHANGED <<karma, now, senders, pending, config, nops, received>>

\* the records the queries run over: votes on the two messages by the other
\* user, given to the author or, when the author opted out, to nobody
QueryRecords ==
    {r \in [given_to : UserIds, given_by : Users, given_in : {Room}, given_for : Msgs,
            given_from : DbFroms, given_at : {0}, value : Values, content : {"body", ""}] :
        /\ r.given_by # MsgSender[r.given_for]
        /\ r.given_to \in {MsgSender[r.given_for], Anonymous}
        /\ (r.content = "") <=> (r.given_to = Anonymous)}

NextQuery ==
    \/ \E rec \in QueryRecords, t \in Clock : DbInsert(rec, t)
    \/ \E self \in karma, v \in Values, t \in Clock : DbUpdate(self, v, t)
    \/ \E self \in karma : DbDelete(self)
    \/ \E u \in UserIds : FindIndexFromTop(u)
    \/ \E n \in 1..MaxLimit : GetHigh(n)
    \/ \E n \in 1..MaxLimit : GetLow(n)
    \/ \E n \in 1..MaxLimit : GetTopUsers(n)
    \/ \E n \in 1..MaxLimit : GetBottomUsers(n)
    \/ \E n \in 1..MaxLimit : GetBestEvents(n)
    \/ \E n \in 1..MaxLimit : GetWorstEvents(n)
    \/ \E lt \in {"top", "bottom"} : KarmaUserList(lt)
    \/ \E u \in UserIds : Recalculate(u)

SpecQuery == Init /\ [][NextQuery]_vars

-----------------------------------------------------------------------------
(* The fold of the ledger: what the aggregate of a user is meant to be *)

RECURSIVE SumValues(_)
SumValues(S) ==
    IF S = {} THEN 0
    ELSE LET r == CHOOSE x \in S : TRUE IN r.value + SumValues(S \ {r})

GivenTo(k, user_id) == {r \in k : r.given_to = user_id}

Fold(k, user_id) ==
    [user_id |-> user_id,
     total |-> SumValues(GivenTo(k, user_id)),
     positive |-> Cardinality({r \in GivenTo(k, user_id) : r.value = 1}),
     negative |-> Cardinality({r \in GivenTo(k, user_id) : r.value = -1})]

ZeroRow(user_id) == [user_id |-> user_id, total |-> 0, positive |-> 0, negative |-> 0]

\* what each record gives to whom: the part of the ledger the aggregate depends on
Contributions(k) == {<<KeyOf(r), r.value>> : r \in k}

-----------------------------------------------------------------------------
\* C1: after any sequence of Karma.insert, Karma.update and Karma.delete,
\* every recipient of a vote record has an aggregate row, and every
\* aggregate row holds the sum of the values of the records given to its
\* user, the number of them with value +1 and the number with value -1.
C1_AggregateIsFold ==
    /\ \A r \in karma : get_karma(cache, r.given_to) # {}
    /\ \A row \in cache : row = Fold(karma, row.user_id)

C1_Witness ==
    /\ last.op = "delete"
    /\ last.value = 1
    /\ \E row \in cache : row.user_id = last.key[1] /\ row.positive = 0 /\ row.negative = 1

\* C2: every aggregate row has total = positive - negative, after any
\* sequence of insertions, flips and retractions.
C2_TotalIsDifference ==
    \A row \in cache : row.total = row.positive - row.negative

C2_Witness ==
    /\ last.op = "update"
    /\ last.pre # {}
    /\ \E row \in cache : row.user_id = last.key[1] /\ {row} # last.pre

\* C8: no two vote records have the same originating event (given_from).
C8_GivenFromUnique ==
    \A r1, r2 \in karma : r1.given_from = r2.given_from => r1 = r2

C8_Witness ==
    /\ last.op = "insert"
    /\ last.outcome = "Failed"
    /\ \E r \in karma : r.given_from = last.evt /\ KeyOf(r) # last.key

\* C9: a mutating operation changes the ledger and the aggregate together
\* or not at all: when it fails both tables are as before, an insert whose
\* originating event is already that of a record fails, and what the
\* records contribute changes exactly when the aggregate changes.
C9_AllOrNothing ==
    [][ last'.op \in {"insert", "update", "delete"} =>
          /\ last'.outcome = "Failed" => karma' = karma /\ cache' = cache
          /\ (last'.op = "insert" /\ is_vote_event(karma, last'.evt))
                => last'.outcome = "Failed"
          /\ (Contributions(karma') # Contributions(karma)) <=> (cache' # cache) ]_vars

C9_Witness ==
    /\ last.op = "insert"
    /\ last.outcome = "Failed"
    /\ is_vote_event(karma, last.evt)
    /\ ~ \E r \in karma : KeyOf(r) = last.key

-----------------------------------------------------------------------------
OneRecordPerKey(k) == \A r1, r2 \in k : KeyOf(r1) = KeyOf(r2) => r1 = r2

WithKey(k, key) == {r \in k : KeyOf(r) = key}

\* C3: at most one vote record per (recipient, voter, room, target event),
\* also when vote events are handled concurrently; a vote event that gets
\* to the ledger with the key of an existing record is Unchanged when the
\* polarity is the same and an update in place when it is the opposite one.
C3_OneRecordPerKey ==
    [][ /\ OneRecordPerKey(karma')
        /\ (last'.op = "vote" /\ WithKey(karma, last'.key) # {}) =>
              /\ \E r \in WithKey(karma, last'.key) :
                    last'.outcome = IF r.value = last'.value THEN "Unchanged" ELSE "Updated"
              /\ Cardinality(WithKey(karma', last'.key)) = 1 ]_vars

\* the second of two vote events that were in flight together, for one key
C3_Witness ==
    /\ last.op = "vote"
    /\ last.outcome \in {"Unchanged", "Updated"}
    /\ last.prior # <<>>
    /\ last.prior[1] = "Created"
    /\ last.prior[3] = last.key

\* C4: a vote with the recipient, voter, room, target and polarity of an
\* existing record is Unchanged, and the ledger (originating event and
\* timestamp of the record included) and the aggregate are as before.
C4_Idempotent ==
    [][ last'.op = "vote" =>
          /\ (\E r \in WithKey(karma, last'.key) : r.value = last'.value)
                => last'.outcome = "Unchanged"
          /\ last'.outcome = "Unchanged" => karma' = karma /\ cache' = cache ]_vars

C4_Witness ==
    /\ last.op = "vote"
    /\ last.outcome = "Unchanged"
    /\ \E r \in WithKey(karma, last.key) : r.value = last.value /\ r.given_from # last.evt

\* C5: a vote of polarity -p on the key of a record of polarity p leaves
\* exactly one record for the key, of polarity -p; the recipient's total
\* changes by 2*(-p), the counter of the old polarity goes down by one and
\* the counter of the new polarity goes up by one.
C5_Flip ==
    [][ (last'.op = "vote"
         /\ \E r \in WithKey(karma, last'.key) : r.value = 0 - last'.value) =>
          /\ last'.outcome = "Updated"
          /\ \E r \in karma' : r.value = last'.value /\ WithKey(karma', last'.key) = {r}
          /\ \E row \in get_karma(cache, last'.key[1]) :
                get_karma(cache', last'.key[1]) =
                    {[user_id |-> row.user_id,
                      total |-> row.total + 2 * last'.value,
                      positive |-> row.positive + last'.value,
                      negative |-> row.negative - last'.value]} ]_vars

C5_Witness ==
    /\ last.op = "vote"
    /\ last.outcome = "Updated"
    /\ \E r \in WithKey(karma, last.key) : r.value = last.value
    /\ \E row \in last.pre : get_karma(cache, last.key[1]) # {row}

\* a redaction of the originating event of the record the step before created
Undoes ==
    /\ last.op = "vote"
    /\ last.outcome = "Created"
    /\ last'.op = "redact"
    /\ last'.evt = last.evt

\* C6, as stated: a vote that is Created and then at once retracted by its
\* originating event leaves the recipient's aggregate as before the vote,
\* the presence or absence of the row included.
C6_RetractRestoresRow ==
    [][ Undoes => get_karma(cache', last.key[1]) = last.pre ]_vars

\* C6, amended: a vote that is Created and then at once retracted by its
\* originating event leaves the recipient's total, positive and negative as
\* before the vote; a recipient that had no row before has a row of zeros.
C6_RetractRestoresCounts ==
    [][ Undoes =>
          /\ last'.outcome = "Deleted"
          /\ get_karma(cache', last.key[1]) =
                IF last.pre = {} THEN {ZeroRow(last.key[1])} ELSE last.pre ]_vars

C6_Witness ==
    /\ last.op = "redact"
    /\ last.outcome = "Deleted"
    /\ last.prior # <<>>
    /\ last.prior[1] = "Created"
    /\ last.prior[2] = last.evt
    /\ \E row \in cache : row.user_id = last.key[1] /\ row.total # 0

\* C7: the redaction of the originating event of a record deletes that
\* record and no other, takes the record's current polarity from the
\* recipient's total and one from the matching counter (also when the
\* record was flipped after it was created), and changes no other row.
C7_RedactDeletesRecord ==
    [][ (last'.op = "redact" /\ is_vote_event(karma, last'.evt)) =>
          \E r \in karma :
              /\ r.given_from = last'.evt
              /\ last'.outcome = "Deleted"
              /\ karma' = karma \ {r}
              /\ \E row \in get_karma(cache, r.given_to) :
                    cache' = (cache \ {row}) \cup
                        {[user_id |-> row.user_id,
                          total |-> row.total - r.value,
                          positive |-> row.positive - (IF r.value = 1 THEN 1 ELSE 0),
                          negative |-> row.negative - (IF r.value = -1 THEN 1 ELSE 0)]} ]_vars

\* the record was flipped by the step before the redaction
C7_Witness ==
    /\ last.op = "redact"
    /\ last.outcome = "Deleted"
    /\ last.prior # <<>>
    /\ last.prior[1] = "Updated"
    /\ last.prior[3] = last.key
    /\ last.prior[2] # last.evt

\* C10: no vote record's target event (given_for) is the originating event
\* (given_from) of a vote record, under any interleaving of vote events.
C10_NoVoteOnVote ==
    \A r1, r2 \in karma : r1.given_for # r2.given_from

-----------------------------------------------------------------------------
\* the records a voter gave on an event of their own
SelfVotes == {r \in karma : r.given_by = SenderOf(r.given_for)}

\* C11, as stated: a vote by the author of its target never makes or
\* changes a record, whatever its polarity: no record has given_by equal
\* to the author of its target event.
C11_NoSelfVote == SelfVotes = {}

\* C11, amended: an upvote by the author of its target is rejected and
\* changes nothing, so no record of value +1 has given_by equal to the
\* author of its target event; a downvote of one's own event is recorded.
C11_NoSelfUpvote ==
    [][ /\ (\A r \in SelfVotes : r.value = -1)'
        /\ \A p \in pending \ pending' :
              (/\ last'.op = "vote" /\ p.value = 1 /\ p.target \in RoomEvents
               /\ SenderOf(p.target) = SenderOf(p.evt))
                => last'.outcome = "SelfUpvote" /\ karma' = karma /\ cache' = cache ]_vars

\* an upvote of one's own event rejected while one's downvote of it stands
C11_Witness ==
    /\ last.op = "vote"
    /\ last.outcome = "SelfUpvote"
    /\ \E r \in SelfVotes : r.given_by = SenderOf(last.evt) /\ r.value = -1

-----------------------------------------------------------------------------
\* C12: get_karma(user) is absent exactly when no record was ever given to
\* the user: it is absent for every user before the first vote, and a
\* user whose received votes sum to zero, or were all retracted, has a row
\* of total 0.
C12_AbsentIffNeverVoted ==
    /\ \A u \in UserIds : (get_karma(cache, u) = {}) <=> (u \notin received)
    /\ \A u \in received :
          SumValues(GivenTo(karma, u)) = 0 => \E row \in get_karma(cache, u) : row.total = 0
    /\ last.op = "get_karma" =>
          /\ answer = get_karma(cache, last.evt)
          /\ (answer = {}) <=> (last.evt \notin received)

\* get_karma answered for a user all of whose votes were retracted
C12_Witness ==
    /\ last.op = "get_karma"
    /\ last.evt \in received
    /\ GivenTo(karma, last.evt) = {}
    /\ answer = {ZeroRow(last.evt)}

-----------------------------------------------------------------------------
(* The order the specification gives to rows of equal total: user ids and  *)
(* event ids ascending.                                                    *)

UserOrder == <<"", "alice", "bob">>
EventOrder == <<"m1", "m2">>

Pos(seq, x) == CHOOSE i \in 1..Len(seq) : seq[i] = x

UserBefore(a, b) == Pos(UserOrder, a) < Pos(UserOrder, b)
EventBefore(a, b) == Pos(EventOrder, a) < Pos(EventOrder, b)

\* the one order of the user rows S with ties broken by user id ascending
UsersTieBroken(S, direction) ==
    CHOOSE f \in OrderBy(S, direction) :
        \A i \in 1..(Cardinality(S) - 1) :
            f[i].total = f[i + 1].total => UserBefore(f[i].user_id, f[i + 1].user_id)

\* the one rank of user_id under that order, -1 without a row
RankOf(c, user_id) == IndexIn(UsersTieBroken(c, "desc"), user_id)

\* per target event: the sum of the polarities and the counts of +1 and -1
EventFold(k) ==
    {[event_id |-> e,
      total |-> SumValues({r \in k : r.given_for = e}),
      positive |-> Cardinality({r \in k : r.given_for = e /\ r.value = 1}),
      negative |-> Cardinality({r \in k : r.given_for = e /\ r.value = -1})]
     : e \in {r.given_for : r \in k}}

EventsTieBroken(S, direction) ==
    CHOOSE f \in OrderBy(S, direction) :
        \A i \in 1..(Cardinality(S) - 1) :
            f[i].total = f[i + 1].total => EventBefore(f[i].event_id, f[i + 1].event_id)

EventSums(f) ==
    [i \in 1..Len(f) |->
        [event_id |-> f[i].event_id, total |-> f[i].total,
         positive |-> f[i].positive, negative |-> f[i].negative]]

RealRows(S) == {row \in S : row.user_id # Anonymous}

-----------------------------------------------------------------------------
\* C13: find_index_from_top(user) returns the 1-based position of the user's
\* aggregate row in the order by total descending with ties broken by
\* user_id ascending, and -1 when the user has no row.
C13_RankTieBroken ==
    last.op = "find_index_from_top" => answer = RankOf(cache, last.evt)

\* C14: the top and bottom lists (Karma.get_top_users, get_bottom_users,
\* KarmaCache.get_high, get_low) return the first n rows by total, descending
\* for top and ascending for bottom, ties broken by user_id ascending, so the
\* same state always gives the same list.
C14_ListsTieBroken ==
    /\ last.op = "get_top_users" =>
          answer = Limit(UsersTieBroken(UserStats(karma), "desc"), last.value)
    /\ last.op = "get_bottom_users" =>
          answer = Limit(UsersTieBroken(UserStats(karma), "asc"), last.value)
    /\ last.op = "get_high" => answer = Limit(UsersTieBroken(cache, "desc"), last.value)
    /\ last.op = "get_low" => answer = Limit(UsersTieBroken(cache, "asc"), last.value)

\* C15: get_best_events(n) and get_worst_events(n) return the first n target
\* events by summed polarity, descending for best and ascending for worst,
\* ties broken by the target event id ascending, each with the sum of the
\* polarities of its records and the counts of its +1 and -1 records.
C15_EventsTieBroken ==
    /\ last.op = "get_best_events" =>
          EventSums(answer) = Limit(EventsTieBroken(EventFold(karma), "desc"), last.value)
    /\ last.op = "get_worst_events" =>
          EventSums(answer) = Limit(EventsTieBroken(EventFold(karma), "asc"), last.value)

\* C16: recalculate(user) completes and leaves the user's aggregate row equal
\* to the fold of the records given to the user, whatever the row held before.
C16_RecalculateIsFold ==
    [][ last'.op = "recalculate" =>
          /\ last'.outcome = "Done"
          /\ get_karma(cache', last'.evt) = {Fold(karma', last'.evt)} ]_vars

\* C17: the top and bottom lists never hold the row of the empty recipient
\* and still hold n real users when n exist, the printed list numbers the
\* real users 1, 2, ... without a gap, and the rank of a real user does not
\* count the empty recipient's row.
C17_EmptyRecipientSkipped ==
    /\ last.op \in {"get_top_users", "get_bottom_users"} =>
          /\ \A i \in DOMAIN answer : answer[i].user_id # Anonymous
          /\ Len(answer) = Min(last.value, Cardinality(RealRows(UserStats(karma))))
    /\ last.op = "_karma_user_list" =>
          /\ Len(answer) = Min(DefaultLimit, Cardinality(RealRows(UserStats(karma))))
          /\ \A i \in 1..Len(answer) : answer[i].index = i
    /\ (last.op = "find_index_from_top" /\ last.evt # Anonymous) =>
          answer \in find_index_from_top(RealRows(cache), last.evt)

-----------------------------------------------------------------------------
\* C18: with the opt-out set of the running configuration, a vote on an
\* event whose author has opted out is stored with the empty recipient and
\* an empty content, no vote record is given to an opted-out user and no
\* aggregate row exists for an opted-out user.
C18_OptOutAnonymized ==
    /\ \A r \in karma :
          /\ sha1(r.given_to) \notin config.opt_out
          /\ sha1(SenderOf(r.given_for)) \in config.opt_out =>
                r.given_to = Anonymous /\ r.content = ""
    /\ \A row \in cache : sha1(row.user_id) \notin config.opt_out

C18_Witness ==
    /\ last.op = "vote"
    /\ last.outcome = "Created"
    /\ config.store_content
    /\ \E r \in karma :
          /\ r.given_from = last.evt
          /\ sha1(SenderOf(r.given_for)) \in config.opt_out
          /\ r.given_to = Anonymous
          /\ r.content = ""
    /\ \E r \in karma : r.given_to # Anonymous /\ r.content = "body"

-----------------------------------------------------------------------------
\* C19: there is at most one vote record for each voter, room and target
\* event, whatever the record's recipient.
C19_OneVotePerTarget ==
    \A r1, r2 \in karma :
        (/\ r1.given_by = r2.given_by
         /\ r1.given_in = r2.given_in
         /\ r1.given_for = r2.given_for) => r1 = r2

-----------------------------------------------------------------------------
\* C20: the redaction of an event that no vote record has as its given_from
\* is no error: it ends with NotFound and leaves the karma table and every
\* aggregate row as they were.
C20_RedactNonVoteIgnored ==
    [][ (last'.op = "redact" /\ ~is_vote_event(karma, last'.evt)) =>
          /\ last'.outcome = "NotFound"
          /\ karma' = karma
          /\ cache' = cache ]_vars

C20_Witness ==
    /\ last.op = "redact"
    /\ last.outcome = "NotFound"
    /\ last.evt \in Msgs
    /\ karma # {}
    /\ ~is_vote_event(karma, last.evt)

-----------------------------------------------------------------------------
\* C21: the export of a user holds every vote record given to the user or
\* given by the user exactly once, also a record the user gave to
\* themselves, and nothing else.
C21_ExportExact ==
    last.op = "export" =>
        /\ \A r \in karma :
              IF r.given_to = last.evt \/ r.given_by = last.evt
              THEN to_dict(r) \in DOMAIN answer /\ answer[to_dict(r)] = 1
              ELSE to_dict(r) \notin DOMAIN answer
        /\ \A d \in DOMAIN answer : from_dict(d) \in karma

\* an export with a record the user gave to themselves and with a record
\* of the table left out
C21_Witness ==
    /\ last.op = "export"
    /\ \E d \in DOMAIN answer : d["to"] = last.evt /\ d["by"] = last.evt
    /\ \E r \in karma : to_dict(r) \notin DOMAIN answer

-----------------------------------------------------------------------------
\* the outcomes of a vote attempt that was rejected or could not be resolved
Rejections == {"NoTarget", "Filtered", "VoteOnVote", "Unresolvable", "SelfUpvote"}

\* C22: a vote attempt with no target, by a filtered or opted-out voter, on
\* a vote event, on an event that cannot be fetched, or an upvote of one's
\* own event is rejected (nothing of it is left to run later) and neither
\* the karma table nor any aggregate row changes.
C22_RejectedVotesChangeNothing ==
    [][ /\ last'.outcome \in Rejections => karma' = karma /\ cache' = cache
        /\ last'.op = "begin" =>
              LET sender == senders'[Len(senders')]
              IN /\ karma' = karma /\ cache' = cache
                 /\ (\/ config.democracy = (sender \in config.filter)
                     \/ sha1(sender) \in config.opt_out)
                       => last'.outcome \in Rejections /\ pending' = pending
                 /\ \A p \in pending' \ pending :
                       p.target # NoTarget /\ ~is_vote_event(karma, p.target)
                 /\ pending' = pending => last'.outcome \in Rejections
        /\ \A p \in pending \ pending' :
              (/\ last'.op = "vote"
               /\ \/ get_event(p.target) = {}
                  \/ \E t \in get_event(p.target) :
                        t.sender = SenderOf(p.evt) /\ p.value > 0)
                => last'.outcome \in Rejections ]_vars

\* a vote on a vote event, rejected while the tables hold that vote
C22_Witness ==
    /\ last.op = "begin"
    /\ last.outcome = "VoteOnVote"
    /\ karma # {}
    /\ cache # {}
    /\ pending = {}

-----------------------------------------------------------------------------
\* the key a waiting vote will have when it resumes
PendingKey(p) ==
    <<IF Anonymize(config, SenderOf(p.target)) THEN Anonymous ELSE SenderOf(p.target),
      SenderOf(p.evt), Room, p.target>>

\* the aggregate row after the record of value v was taken back from row
\* and, when flipped is not 0, a record of value flipped was put in
RowAfter(row, v, flipped) ==
    [user_id |-> row.user_id,
     total |-> row.total - v + flipped,
     positive |-> row.positive - (IF v = 1 THEN 1 ELSE 0) + (IF flipped = 1 THEN 1 ELSE 0),
     negative |-> row.negative - (IF v = -1 THEN 1 ELSE 0) + (IF flipped = -1 THEN 1 ELSE 0)]

\* C23: the redaction of a vote's originating event and an opposite vote by
\* the same voter on the same target, handled together, end as one of the
\* two sequential orders does.  The redaction first (also when the vote
\* handler was already waiting for its target): the record is gone and the
\* vote creates a new record from its own event, the recipient's row being
\* the row before the redaction with the old value out and the new one in.
\* The vote first: the record is flipped in place and the redaction of the
\* first event deletes it, the row being the row before the flip with the
\* old value out.  An upvote of one's own event stays rejected in either
\* order.  In every state in between the aggregate is the fold of the karma
\* table.
C23_RedactFlipSerializable ==
    [][ /\ (\A row \in cache : row = Fold(karma, row.user_id))'
        /\ (\A r \in karma : get_karma(cache, r.given_to) # {})'
        /\ \A p \in pending \ pending' :
              (/\ last.op = "redact" /\ last.outcome = "Deleted"
               /\ last'.op = "vote"
               /\ p.target \in RoomEvents
               /\ PendingKey(p) = last.key
               /\ p.value = 0 - last.value)
                => IF IsSelfUpvote(SenderOf(p.target), SenderOf(p.evt), p.value)
                   THEN last'.outcome = "SelfUpvote" /\ karma' = karma /\ cache' = cache
                   ELSE /\ last'.outcome = "Created"
                        /\ \E r \in karma' :
                              /\ karma' = karma \cup {r}
                              /\ r \notin karma
                              /\ KeyOf(r) = last.key
                              /\ r.given_from = p.evt
                              /\ r.value = p.value
                        /\ \E row \in last.pre :
                              get_karma(cache', last.key[1]) =
                                  {RowAfter(row, last.value, p.value)}
        /\ (/\ last.op = "vote" /\ last.outcome = "Updated"
            /\ last'.op = "redact" /\ last'.key = last.key)
              => /\ last'.outcome = "Deleted"
                 /\ last'.evt # last.evt
                 /\ WithKey(karma', last.key) = {}
                 /\ karma' = karma \ WithKey(karma, last.key)
                 /\ \E row \in last.pre :
                       get_karma(cache', last.key[1]) = {RowAfter(row, 0 - last.value, 0)} ]_vars

\* the redaction has deleted the record while the opposite vote of the same
\* voter on the same target waits for its target event
C23_Witness ==
    /\ last.op = "redact"
    /\ last.outcome = "Deleted"
    /\ \E p \in pending :
          /\ p.target \in RoomEvents
          /\ PendingKey(p) = last.key
          /\ p.value = 0 - last.value
          /\ ~IsSelfUpvote(SenderOf(p.target), SenderOf(p.evt), p.value)

-----------------------------------------------------------------------------
\* C24: a flip rewrites the value and the timestamp of the record and
\* nothing else: the key, the content and given_from stay as the creating
\* vote set them.  So the event that flipped is no vote event for
\* is_vote_event, its redaction finds nothing and leaves both tables as
\* they are, and the redaction of the creating event deletes the flipped
\* record.
C24_FlipKeepsGivenFrom ==
    [][ /\ (last'.op = "vote" /\ last'.outcome = "Updated") =>
              /\ \E r \in karma, r2 \in karma' :
                    /\ KeyOf(r) = last'.key
                    /\ karma' = (karma \ {r}) \cup {r2}
                    /\ r2 = [r EXCEPT !.value = last'.value, !.given_at = r2.given_at]
                    /\ r2.given_at >= r.given_at
                    /\ r2.given_from # last'.evt
              /\ ~is_vote_event(karma', last'.evt)
        /\ (last.op = "vote" /\ last.outcome = "Updated" /\ last'.op = "redact") =>
              IF last'.evt = last.evt
              THEN last'.outcome = "NotFound" /\ karma' = karma /\ cache' = cache
              ELSE (\E r \in WithKey(karma, last.key) : r.given_from = last'.evt) =>
                      /\ last'.outcome = "Deleted"
                      /\ karma' = karma \ WithKey(karma, last.key) ]_vars

\* a flipped record with a content, still under the event that created it
C24_Witness ==
    /\ last.op = "vote"
    /\ last.outcome = "Updated"
    /\ ~is_vote_event(karma, last.evt)
    /\ \E r \in WithKey(karma, last.key) :
          /\ r.value = last.value
          /\ r.content = "body"
          /\ r.given_from \in Redactable \ {last.evt}

-----------------------------------------------------------------------------
\* C25: when find_index_from_top gives a user the rank r, the user is the
\* r-th entry of the top list of n users for every n >= r (of some order of
\* the list, where totals are equal); a user whose votes were all taken
\* back takes no rank.
C25_RankAgreesWithTopList ==
    (last.op = "find_index_from_top" /\ answer # -1) =>
        \A n \in answer..(Cardinality(cache) + 1) :
            \E list \in get_user_stats(karma, "desc", n) :
                Len(list) >= answer /\ list[answer].user_id = last.evt

====
